---- MODULE Spec2Model ----
(***************************************************************************)
(* Project-specific settings of the Blender Cloud add-on:                  *)
(* blender_cloud/project_specific.py (mark_as_loading,                     *)
(* handle_project_update, store) together with the preference fields of    *)
(* blender_cloud/blender.py and the Flamenco Manager selector of           *)
(* blender_cloud/flamenco/__init__.py.                                     *)
(*                                                                         *)
(* The host runs every callback on the UI thread, so a handler is a        *)
(* sequence of steps (pc) that no user event interleaves with.             *)
(*                                                                         *)
(* The operators of blender_cloud/attract/__init__.py, FLAMENCO_OT_render  *)
(* and PILLAR_OT_projects form a second machine (SpecOperators): a         *)
(* synchronous operator is one step, an asynchronous one a step per await. *)
(*                                                                         *)
(* The manager EnumProperty is modelled as a stored identifier that is     *)
(* validated against the items of available_managers() on assignment (the  *)
(* TypeError handle_project_update catches); assigning None resets it to   *)
(* the empty identifier.                                                   *)
(***************************************************************************)
EXTENDS Integers, Sequences, FiniteSets, TLC

\* ------------------------------------------------------------------ bounds
MaxOps == 5

\* ------------------------------------------------------------- value sets
NoProject == ""
Projects == {"projA", "projB"}
NoManager == ""
Managers == {"m1", "m2"}
Features == {"attract", "flamenco"}
DefaultLocalPath == "//../"
LocalPaths == {DefaultLocalPath, "//local"}
DefaultFilePath == "/render/_flamenco/storage"
FilePaths == {DefaultFilePath, "/a"}
DefaultOutputPath == "/render/_flamenco/output"
OutputPaths == {DefaultOutputPath, "/b"}
StripComponents == {0, 2}

\* What the metadata of a project can say when project_extensions reads it.
MetadataAnswers(p) ==
    IF p = "projA" THEN {{"attract"}, {"attract", "flamenco"}} ELSE {{"flamenco"}}

\* What Manager.all can answer: the managers the user has access to.
ManagerLists == {<<>>, <<"m1">>, <<"m1", "m2">>}

\* The strips of the sequence editor, all selected, in their order.
Strips == {"s1", "s2"}
selected_sequences == <<"s1", "s2">>
NoShot == ""
ShotIds == {"shot1", "shot2"}

\* How a remote call can end: with a result, with a falsy result, or with
\* an exception of pillarsdk.exceptions.
FindOutcomes == {"ok", "ResourceNotFound", "ForbiddenAccess"}
WriteOutcomes == {"ok", "falsy", "ForbiddenAccess"}
JobOutcomes == {"ok", "ResourceInvalid", "ForbiddenAccess"}
UserProjectLists == {<<>>, <<"projA">>}
SharedProjectLists == {<<>>, <<"projB">>}
ListOutcomes(lists) ==
    {[error |-> "ok", items |-> l] : l \in lists}
        \cup {[error |-> "ForbiddenAccess", items |-> <<>>]}

\* ------------------------------------------------------ dict-like helpers
EmptyDict == [k \in {} |-> 0]

\* d.get(k, default)
Get(d, k, default) == IF k \in DOMAIN d THEN d[k] ELSE default

\* d[k] = v
Put(d, k, v) == [x \in (DOMAIN d) \cup {k} |-> IF x = k THEN v ELSE d[x]]

\* as_list = [{'_id': p['_id'], 'name': p['name']} for p in managers['_items']]
as_list(ids) == [i \in DOMAIN ids |-> [_id |-> ids[i], name |-> ids[i]]]

\* available_managers(self, context): the items of the manager selector.
available_managers_items(mngrs) ==
    IF mngrs = <<>>
        THEN <<[id |-> "", name |-> "No managers available in your Blender Cloud"]>>
        ELSE [i \in DOMAIN mngrs |-> [id |-> mngrs[i]._id, name |-> mngrs[i].name]]

\* Whether the manager EnumProperty accepts the identifier (else TypeError).
manager_accepts(mngrs, id) ==
    \E i \in DOMAIN available_managers_items(mngrs) :
        available_managers_items(mngrs)[i].id = id

\* PROJECT_SPECIFIC_SIMPLE_PROPS
PROJECT_SPECIFIC_SIMPLE_PROPS == {"cloud_project_local_path"}

VARIABLES
    project_settings_loading,   \* the module-level flag
    project,                    \* prefs.project.project
    cloud_project_local_path,   \* the tracked simple property
    manager,                    \* prefs.flamenco_manager.manager
    available_managers,         \* prefs.flamenco_manager.available_managers
    flamenco_job_file_path,
    flamenco_job_output_path,
    flamenco_job_output_strip_components,
    project_settings,           \* prefs['project_settings']
    attract_active,             \* attract.activate() / deactivate()
    flamenco_active,            \* flamenco.activate() / deactivate()
    metadata,                   \* enabled_for of the project, as last answered
    cache,                      \* lru_cache of project_extensions
    enabled_for,                \* local of handle_project_update
    dropped,                    \* what cache_clear() of the running call discarded
    status,                     \* prefs.flamenco_manager.status
    pc,                         \* position inside handle_project_update
    outcome,                    \* how the running call is leaving the with block
    result,                     \* how the last call returned ("none": other event since)
    trace,                      \* steps of the running call, in order
    trail,                      \* projects of the last calls that returned, oldest first
    last_stored,                \* per project, the live values at its last store()
    ops,                        \* number of user events so far
    frames,                     \* the calls of handle_project_update a nested call suspended
    strips,                     \* the Attract properties of the sequencer strips
    active_strip,               \* context.scene.sequence_editor.active_strip
    operator,                   \* the operator that returned last
    returned,                   \* what it returned, "RAISED" for an exception
    reported,                   \* the levels it passed to self.report
    failed,                     \* the remote calls' failures during its run
    projects_pc,                \* position inside PILLAR_OT_projects.async_execute
    projects_user,              \* its local projects_user
    render_pc,                  \* position inside FLAMENCO_OT_render.async_execute
    in_flight,                  \* per running operator, its awaited calls
    available_projects,         \* prefs.attract_project.available_projects
    attract_project_status      \* prefs.attract_project.status

settings_vars == <<project_settings_loading, project, cloud_project_local_path, manager,
          available_managers, flamenco_job_file_path, flamenco_job_output_path,
          flamenco_job_output_strip_components, project_settings, attract_active,
          flamenco_active, metadata, cache, enabled_for, dropped, status, pc,
          outcome, result, trace, trail, last_stored, ops, frames>>

strip_vars == <<strips, active_strip>>
report_vars == <<operator, returned, reported, failed>>
async_vars == <<projects_pc, projects_user, render_pc, in_flight, available_projects,
                attract_project_status>>
operator_vars == <<strip_vars, report_vars, async_vars>>

vars == <<settings_vars, operator_vars>>

live == <<cloud_project_local_path, manager, available_managers,
          flamenco_job_file_path, flamenco_job_output_path,
          flamenco_job_output_strip_components>>

features == <<attract_active, flamenco_active>>
history == <<trace, trail>>

\* ------------------------------------------------------------------ store
\* store() as it would be if it kept the manager selection of the entry.
store_unguarded_KeepManager(all_settings, project_id, lp, mgr, avail, fp, op, sc) ==
    LET ps0  == Get(all_settings, project_id, EmptyDict)
        ps1  == Put(ps0, "cloud_project_local_path", lp)
        ps2  == Put(ps1, "flamenco_manager_id", Get(ps0, "flamenco_manager_id", mgr))
        ps3  == Put(ps2, "flamenco_available_managers", avail)
        pppm == Put(Get(ps3, "flamenco_managers_settings", EmptyDict), mgr,
                    [file_path |-> fp, output_path |-> op,
                     output_strip_components |-> sc])
        ps4  == Put(ps3, "flamenco_managers_settings", pppm)
    IN  Put(all_settings, project_id, ps4)

\* store() as it would be if it filled the per-manager settings only of an
\* entry that already has them.
store_unguarded_LazySettings(all_settings, project_id, lp, mgr, avail, fp, op, sc) ==
    LET ps0  == Get(all_settings, project_id, EmptyDict)
        ps1  == Put(ps0, "cloud_project_local_path", lp)
        ps2  == Put(ps1, "flamenco_manager_id", mgr)
        ps3  == Put(ps2, "flamenco_available_managers", avail)
        pppm == IF "flamenco_managers_settings" \in DOMAIN ps3
                    THEN Put(ps3["flamenco_managers_settings"], mgr,
                             [file_path |-> fp, output_path |-> op,
                              output_strip_components |-> sc])
                    ELSE EmptyDict
        ps4  == Put(ps3, "flamenco_managers_settings", pppm)
    IN  Put(all_settings, project_id, ps4)

\* store() as it would be if it rebuilt the per-manager settings from the
\* selected manager alone.
store_unguarded_FreshManagers(all_settings, project_id, lp, mgr, avail, fp, op, sc) ==
    LET ps0  == Get(all_settings, project_id, EmptyDict)
        ps1  == Put(ps0, "cloud_project_local_path", lp)
        ps2  == Put(ps1, "flamenco_manager_id", mgr)
        ps3  == Put(ps2, "flamenco_available_managers", avail)
        pppm == Put(EmptyDict, mgr,
                    [file_path |-> fp, output_path |-> op,
                     output_strip_components |-> sc])
        ps4  == Put(ps3, "flamenco_managers_settings", pppm)
    IN  Put(all_settings, project_id, ps4)

\* store() as it would be if it left output_strip_components out of the
\* per-manager settings.
store_unguarded_NoStrip(all_settings, project_id, lp, mgr, avail, fp, op, sc) ==
    LET ps0  == Get(all_settings, project_id, EmptyDict)
        ps1  == Put(ps0, "cloud_project_local_path", lp)
        ps2  == Put(ps1, "flamenco_manager_id", mgr)
        ps3  == Put(ps2, "flamenco_available_managers", avail)
        pppm == Put(Get(ps3, "flamenco_managers_settings", EmptyDict), mgr,
                    [file_path |-> fp, output_path |-> op])
        ps4  == Put(ps3, "flamenco_managers_settings", pppm)
    IN  Put(all_settings, project_id, ps4)

\* store() as it would be if it wrote the simple property into the entry of
\* every project.
store_unguarded_AllProjects(all_settings, project_id, lp, mgr, avail, fp, op, sc) ==
    LET ps0  == Get(all_settings, project_id, EmptyDict)
        ps1  == Put(ps0, "cloud_project_local_path", lp)
        ps2  == Put(ps1, "flamenco_manager_id", mgr)
        ps3  == Put(ps2, "flamenco_available_managers", avail)
        pppm == Put(Get(ps3, "flamenco_managers_settings", EmptyDict), mgr,
                    [file_path |-> fp, output_path |-> op,
                     output_strip_components |-> sc])
        ps4  == Put(ps3, "flamenco_managers_settings", pppm)
        all  == [p \in DOMAIN all_settings |->
                    Put(all_settings[p], "cloud_project_local_path", lp)]
    IN  Put(all, project_id, ps4)

\* store() as it would be if it wrote per-manager settings only while a
\* manager is selected.
store_unguarded_SkipNoManager(all_settings, project_id, lp, mgr, avail, fp, op, sc) ==
    LET ps0  == Get(all_settings, project_id, EmptyDict)
        ps1  == Put(ps0, "cloud_project_local_path", lp)
        ps2  == Put(ps1, "flamenco_manager_id", mgr)
        ps3  == Put(ps2, "flamenco_available_managers", avail)
        old  == Get(ps3, "flamenco_managers_settings", EmptyDict)
        pppm == IF mgr = NoManager
                    THEN old
                    ELSE Put(old, mgr, [file_path |-> fp, output_path |-> op,
                                        output_strip_components |-> sc])
        ps4  == Put(ps3, "flamenco_managers_settings", pppm)
    IN  Put(all_settings, project_id, ps4)

\* store() without its guard: lines 112-134.
store_unguarded(all_settings, project_id, lp, mgr, avail, fp, op, sc) ==
    LET ps0  == Get(all_settings, project_id, EmptyDict)
        ps1  == Put(ps0, "cloud_project_local_path", lp)
        ps2  == Put(ps1, "flamenco_manager_id", mgr)
        ps3  == Put(ps2, "flamenco_available_managers", avail)
        pppm == Put(Get(ps3, "flamenco_managers_settings", EmptyDict), mgr,
                    [file_path |-> fp, output_path |-> op,
                     output_strip_components |-> sc])
        ps4  == Put(ps3, "flamenco_managers_settings", pppm)
    IN  Put(all_settings, project_id, ps4)

\* store() as it would be without the early return of lines 109-110.
store_NoGuard(loading, all_settings, project_id, lp, mgr, avail, fp, op, sc) ==
    store_unguarded(all_settings, project_id, lp, mgr, avail, fp, op, sc)

\* store(): the new value of prefs['project_settings'].
store(loading, all_settings, project_id, lp, mgr, avail, fp, op, sc) ==
    IF loading
        THEN all_settings
        ELSE store_unguarded(all_settings, project_id, lp, mgr, avail, fp, op, sc)

\* The live values a store() call reads.
Snapshot(lp, mgr, avail, fp, op, sc) ==
    [cloud_project_local_path |-> lp, manager |-> mgr, available_managers |-> avail,
     file_path |-> fp, output_path |-> op, output_strip_components |-> sc]

\* store() fired as the update callback of a tracked preference, with the
\* live values as they are after the assignment.
StoreCallback(lp, mgr, avail, fp, op, sc) ==
    /\ project_settings' = store(project_settings_loading, project_settings, project,
                                 lp, mgr, avail, fp, op, sc)
    /\ last_stored' = IF project_settings_loading
                          THEN last_stored
                          ELSE Put(last_stored, project,
                                   Snapshot(lp, mgr, avail, fp, op, sc))

\* No strip is linked to a shot and no operator has run.
InitOperators ==
    /\ strips = [s \in Strips |->
                    [atc_object_id |-> NoShot, atc_is_synced |-> FALSE, atc_name |-> ""]]
    /\ active_strip = "s1"
    /\ operator = "none"
    /\ returned = "none"
    /\ reported = {}
    /\ failed = {}
    /\ projects_pc = "idle"
    /\ projects_user = <<>>
    /\ render_pc = "idle"
    /\ in_flight = [o \in {"pillar.projects", "flamenco.render"} |-> {}]
    /\ available_projects = <<>>
    /\ attract_project_status = "NONE"

Init ==
    /\ project_settings_loading = FALSE
    /\ project = NoProject
    /\ cloud_project_local_path = DefaultLocalPath
    /\ manager = NoManager
    /\ available_managers = <<>>
    /\ flamenco_job_file_path = DefaultFilePath
    /\ flamenco_job_output_path = DefaultOutputPath
    /\ flamenco_job_output_strip_components = 0
    /\ project_settings = EmptyDict
    /\ attract_active = FALSE
    /\ flamenco_active = FALSE
    /\ metadata = {}
    /\ cache = EmptyDict
    /\ enabled_for = {}
    /\ dropped = EmptyDict
    /\ status = "NONE"
    /\ pc = "idle"
    /\ outcome = "none"
    /\ result = "none"
    /\ trace = <<>>
    /\ trail = <<>>
    /\ last_stored = EmptyDict
    /\ ops = 0
    /\ frames = <<>>
    /\ InitOperators

\* The entry of the example of section 8: a manager and its settings, no list
\* of available managers.
SavedExample ==
    Put(Put(EmptyDict, "flamenco_manager_id", "m1"),
        "flamenco_managers_settings",
        Put(EmptyDict, "m1", [file_path |-> "/a", output_path |-> "/b",
                              output_strip_components |-> 2]))

\* Entries with a selectable manager that has no settings: no
\* flamenco_managers_settings at all, or settings of another manager only.
SavedWithoutSettings ==
    LET e == Put(Put(EmptyDict, "flamenco_manager_id", "m1"),
                 "flamenco_available_managers", as_list(<<"m1">>))
    IN  {e, Put(e, "flamenco_managers_settings",
                Put(EmptyDict, "m2", [file_path |-> "/a", output_path |-> "/b",
                                      output_strip_components |-> 2]))}

\* An entry without flamenco_manager_id: the simple property only.
SavedWithoutManager ==
    Put(EmptyDict, "cloud_project_local_path", "//local")

\* prefs['project_settings'] as an earlier session can have left it.
SavedMappings ==
    {Put(Put(EmptyDict, "projA", SavedExample), "projB", e) :
        e \in SavedWithoutSettings \cup {SavedWithoutManager}}

\* The add-on starts on preferences that an earlier session saved.
InitSaved ==
    /\ project_settings_loading = FALSE
    /\ project = NoProject
    /\ cloud_project_local_path = DefaultLocalPath
    /\ manager = NoManager
    /\ available_managers = <<>>
    /\ flamenco_job_file_path = DefaultFilePath
    /\ flamenco_job_output_path = DefaultOutputPath
    /\ flamenco_job_output_strip_components = 0
    /\ project_settings \in SavedMappings
    /\ attract_active = FALSE
    /\ flamenco_active = FALSE
    /\ metadata = {}
    /\ cache = EmptyDict
    /\ enabled_for = {}
    /\ dropped = EmptyDict
    /\ status = "NONE"
    /\ pc = "idle"
    /\ outcome = "none"
    /\ result = "none"
    /\ trace = <<>>
    /\ trail = <<>>
    /\ last_stored = EmptyDict
    /\ ops = 0
    /\ frames = <<>>
    /\ InitOperators

\* A user event: only between handlers, and within the budget.
UserEvent ==
    /\ pc = "idle"
    /\ ops < MaxOps
    /\ ops' = ops + 1
    /\ result' = "none"
    /\ UNCHANGED <<dropped, frames, operator_vars>>


\* ------------------------------------------------ tracked preference edits
\* The tracked preferences carry update=store: an edit assigns the field and
\* then runs store().
EditLocalPath(v) ==
    /\ UserEvent
    /\ cloud_project_local_path' = v
    /\ StoreCallback(v, manager, available_managers, flamenco_job_file_path,
                     flamenco_job_output_path, flamenco_job_output_strip_components)
    /\ UNCHANGED <<project_settings_loading, project, manager, available_managers,
                   flamenco_job_file_path, flamenco_job_output_path,
                   flamenco_job_output_strip_components, features, metadata,
                   cache, enabled_for, status, pc, outcome, history>>

\* The selector offers only the items of available_managers().
EditManager(m) ==
    /\ UserEvent
    /\ manager_accepts(available_managers, m)
    /\ manager' = m
    /\ StoreCallback(cloud_project_local_path, m, available_managers,
                     flamenco_job_file_path, flamenco_job_output_path,
                     flamenco_job_output_strip_components)
    /\ UNCHANGED <<project_settings_loading, project, cloud_project_local_path,
                   available_managers, flamenco_job_file_path, flamenco_job_output_path,
                   flamenco_job_output_strip_components, features, metadata,
                   cache, enabled_for, status, pc, outcome, history>>

EditFilePath(v) ==
    /\ UserEvent
    /\ flamenco_job_file_path' = v
    /\ StoreCallback(cloud_project_local_path, manager, available_managers, v,
                     flamenco_job_output_path, flamenco_job_output_strip_components)
    /\ UNCHANGED <<project_settings_loading, project, cloud_project_local_path, manager,
                   available_managers, flamenco_job_output_path,
                   flamenco_job_output_strip_components, features, metadata,
                   cache, enabled_for, status, pc, outcome, history>>

EditOutputPath(v) ==
    /\ UserEvent
    /\ flamenco_job_output_path' = v
    /\ StoreCallback(cloud_project_local_path, manager, available_managers,
                     flamenco_job_file_path, v, flamenco_job_output_strip_components)
    /\ UNCHANGED <<project_settings_loading, project, cloud_project_local_path, manager,
                   available_managers, flamenco_job_file_path,
                   flamenco_job_output_strip_components, features, metadata,
                   cache, enabled_for, status, pc, outcome, history>>

EditStripComponents(v) ==
    /\ UserEvent
    /\ flamenco_job_output_strip_components' = v
    /\ StoreCallback(cloud_project_local_path, manager, available_managers,
                     flamenco_job_file_path, flamenco_job_output_path, v)
    /\ UNCHANGED <<project_settings_loading, project, cloud_project_local_path, manager,
                   available_managers, flamenco_job_file_path, flamenco_job_output_path,
                   features, metadata, cache, enabled_for, status, pc, outcome,
                   history>>

\* ------------------------------------------------- FLAMENCO_OT_fmanagers
\* The operator button is enabled while status is NONE or IDLE.
FetchManagersStart ==
    /\ UserEvent
    /\ status \in {"NONE", "IDLE"}
    /\ status' = "FETCHING"
    /\ UNCHANGED <<project_settings_loading, project, live, project_settings, features,
                   metadata, cache, enabled_for, pc, outcome, history,
                   last_stored>>

\* async_execute as it would be without the quit() of line 106.
FetchManagersDone_NoQuit(ids) ==
    /\ pc = "idle"
    /\ status = "FETCHING"
    /\ available_managers' = as_list(ids)
    /\ status' = status
    /\ result' = "none"
    /\ UNCHANGED <<project_settings_loading, project, cloud_project_local_path, manager,
                   flamenco_job_file_path, flamenco_job_output_path,
                   flamenco_job_output_strip_components, project_settings, features,
                   metadata, cache, enabled_for, dropped, pc, outcome, history,
                   last_stored, ops, frames, operator_vars>>

\* After the await: store the list, then quit() sets status to IDLE.
FetchManagersDone(ids) ==
    /\ pc = "idle"
    /\ status = "FETCHING"
    /\ available_managers' = as_list(ids)
    /\ status' = "IDLE"
    /\ result' = "none"
    /\ UNCHANGED <<project_settings_loading, project, cloud_project_local_path, manager,
                   flamenco_job_file_path, flamenco_job_output_path,
                   flamenco_job_output_strip_components, project_settings, features,
                   metadata, cache, enabled_for, dropped, pc, outcome, history,
                   last_stored, ops, frames, operator_vars>>

\* ------------------------------------------------- handle_project_update
\* The with block as it would be with the lookup of line 47 moved before the
\* deactivation of lines 44-45.
Successor_LookupFirst(step) ==
    CASE step = "cache_clear"        -> "project_extensions"
      [] step = "project_extensions" -> "deactivate"
      [] step = "deactivate"         -> "activate"
      [] step = "activate"           -> "load_settings"

\* The order of the statements of the with block, lines 41-55.
Successor(step) ==
    CASE step = "cache_clear"        -> "deactivate"
      [] step = "deactivate"         -> "project_extensions"
      [] step = "project_extensions" -> "activate"
      [] step = "activate"           -> "load_settings"

\* project_extensions(project_id), an lru_cache over the project metadata;
\* meta is what the metadata of project_id says when the call is made.
project_extensions(c, meta, project_id) == Get(c, project_id, meta)

\* A statement of the running call; the rest of the UI state waits.
Step(at) ==
    /\ pc = at
    /\ UNCHANGED <<project, status, result, trail, ops>>
    /\ at = "project_extensions" \/ UNCHANGED metadata
    /\ at = "cache_clear" \/ UNCHANGED dropped
    /\ UNCHANGED <<frames, operator_vars>>

\* Leaving the with block: by return or by an exception.
Leave(how) ==
    /\ pc' = "exit"
    /\ outcome' = how

Continue(to) ==
    /\ pc' = to
    /\ UNCHANGED outcome

\* store() as fired by a statement that leaves the live values as they are.
StoreCallbackUnchanged ==
    StoreCallback(cloud_project_local_path, manager, available_managers,
                  flamenco_job_file_path, flamenco_job_output_path,
                  flamenco_job_output_strip_components)

\* handle_project_update as it would be without the with block: the flag
\* stays as it is.
SelectProject_NoMark(p) ==
    /\ UserEvent
    /\ project' = p
    /\ pc' = "cache_clear"
    /\ outcome' = "none"
    /\ trace' = <<>>
    /\ UNCHANGED <<project_settings_loading, live, project_settings, features,
                   metadata, cache, enabled_for, status, last_stored, trail>>

\* The project selector carries update=handle_project_update: selecting a
\* project assigns it and enters the with block (mark_as_loading, line 20).
SelectProject(p) ==
    /\ UserEvent
    /\ project' = p
    /\ project_settings_loading' = TRUE
    /\ pc' = "cache_clear"
    /\ outcome' = "none"
    /\ trace' = <<>>
    /\ UNCHANGED <<live, project_settings, features, metadata, cache,
                   enabled_for, status, last_stored, trail>>

\* The with block as it would be without project_extensions.cache_clear().
CacheClear_KeepsCache ==
    /\ Step("cache_clear")
    /\ cache' = cache
    /\ dropped' = cache
    /\ trace' = Append(trace, "cache_clear")
    /\ Continue(Successor("cache_clear"))
    /\ UNCHANGED <<project_settings_loading, live, project_settings, features,
                   enabled_for, last_stored>>

\* line 41
CacheClear ==
    /\ Step("cache_clear")
    /\ cache' = EmptyDict
    /\ dropped' = cache
    /\ trace' = Append(trace, "cache_clear")
    /\ Continue(Successor("cache_clear"))
    /\ UNCHANGED <<project_settings_loading, live, project_settings, features,
                   enabled_for, last_stored>>

\* The with block as it would be without flamenco.deactivate() (line 45).
Deactivate_OnlyAttract ==
    /\ Step("deactivate")
    /\ attract_active' = FALSE
    /\ UNCHANGED flamenco_active
    /\ trace' = trace \o <<"attract.deactivate">>
    /\ Continue(Successor("deactivate"))
    /\ StoreCallbackUnchanged
    /\ UNCHANGED <<project_settings_loading, live, cache, enabled_for>>

\* lines 44-45
Deactivate ==
    /\ Step("deactivate")
    /\ attract_active' = FALSE
    /\ flamenco_active' = FALSE
    /\ trace' = trace \o <<"attract.deactivate", "flamenco.deactivate">>
    /\ Continue(Successor("deactivate"))
    /\ StoreCallbackUnchanged
    /\ UNCHANGED <<project_settings_loading, live, cache, enabled_for>>

\* lines 44-45 when unregistering a feature raises: in attract.deactivate(),
\* or in flamenco.deactivate() after attract was deactivated.
DeactivateFails ==
    /\ Step("deactivate")
    /\ \/ /\ UNCHANGED <<attract_active, flamenco_active>>
          /\ trace' = trace \o <<"attract.deactivate">>
       \/ /\ attract_active' = FALSE
          /\ UNCHANGED flamenco_active
          /\ trace' = trace \o <<"attract.deactivate", "flamenco.deactivate">>
    /\ Leave("raised")
    /\ StoreCallbackUnchanged
    /\ UNCHANGED <<project_settings_loading, live, cache, enabled_for>>

\* line 47
ProjectExtensions ==
    /\ Step("project_extensions")
    /\ trace' = Append(trace, "project_extensions")
    /\ \E meta \in MetadataAnswers(project) :
          /\ metadata' = meta
          /\ enabled_for' = project_extensions(cache, meta, project)
    /\ cache' = Put(cache, project, enabled_for')
    /\ Continue(Successor("project_extensions"))
    /\ UNCHANGED <<project_settings_loading, live, project_settings, features,
                   last_stored>>

\* line 47 when the lookup raises.
ProjectExtensionsFails ==
    /\ Step("project_extensions")
    /\ trace' = Append(trace, "project_extensions")
    /\ UNCHANGED <<metadata, enabled_for, cache>>
    /\ Leave("raised")
    /\ UNCHANGED <<project_settings_loading, live, project_settings, features,
                   last_stored>>

\* What lines 49-52 call, in order.
to_activate(enabled) ==
    (IF "attract" \in enabled THEN <<"attract.activate">> ELSE <<>>)
        \o (IF "flamenco" \in enabled THEN <<"flamenco.activate">> ELSE <<>>)

\* lines 49-52
Activate ==
    /\ Step("activate")
    /\ attract_active' = (attract_active \/ "attract" \in enabled_for)
    /\ flamenco_active' = (flamenco_active \/ "flamenco" \in enabled_for)
    /\ trace' = trace \o to_activate(enabled_for)
    /\ Continue(Successor("activate"))
    /\ StoreCallbackUnchanged
    /\ UNCHANGED <<project_settings_loading, live, cache, enabled_for>>

\* lines 49-52 when registering a feature raises: in attract.activate(), or
\* in flamenco.activate() after attract was activated if enabled.
ActivateFails ==
    /\ Step("activate")
    /\ \/ /\ "attract" \in enabled_for
          /\ UNCHANGED <<attract_active, flamenco_active>>
          /\ trace' = trace \o <<"attract.activate">>
       \/ /\ "flamenco" \in enabled_for
          /\ attract_active' = (attract_active \/ "attract" \in enabled_for)
          /\ UNCHANGED flamenco_active
          /\ trace' = trace \o to_activate(enabled_for)
    /\ Leave("raised")
    /\ StoreCallbackUnchanged
    /\ UNCHANGED <<project_settings_loading, live, cache, enabled_for>>

\* ps = prefs.get('project_settings', {}).get(project_id, {})
ps == Get(project_settings, project, EmptyDict)

\* lines 55-62 as they would be if they also reset the manager.
LoadSettings_ResetManager ==
    /\ Step("load_settings")
    /\ IF DOMAIN ps = {}
          THEN /\ available_managers' = <<>>
               /\ manager' = NoManager
               /\ Leave("early")
          ELSE /\ UNCHANGED <<available_managers, manager>>
               /\ Continue("restore_simple")
    /\ UNCHANGED <<project_settings_loading, cloud_project_local_path,
                   flamenco_job_file_path, flamenco_job_output_path,
                   flamenco_job_output_strip_components, project_settings, features,
                   cache, enabled_for, trace, last_stored>>

\* lines 55-62
LoadSettings ==
    /\ Step("load_settings")
    /\ IF DOMAIN ps = {}
          THEN /\ available_managers' = <<>>
               /\ Leave("early")
          ELSE /\ UNCHANGED available_managers
               /\ Continue("restore_simple")
    /\ UNCHANGED <<project_settings_loading, cloud_project_local_path, manager,
                   flamenco_job_file_path, flamenco_job_output_path,
                   flamenco_job_output_strip_components, project_settings, features,
                   cache, enabled_for, trace, last_stored>>


\* lines 69-71; the assignment fires store().
RestoreSimple ==
    /\ Step("restore_simple")
    /\ IF "cloud_project_local_path" \in PROJECT_SPECIFIC_SIMPLE_PROPS \cap DOMAIN ps
          THEN /\ cloud_project_local_path' = ps["cloud_project_local_path"]
               /\ trace' = Append(trace, "restore")
               /\ StoreCallback(cloud_project_local_path', manager, available_managers,
                                flamenco_job_file_path, flamenco_job_output_path,
                                flamenco_job_output_strip_components)
          ELSE UNCHANGED <<cloud_project_local_path, trace, project_settings,
                           last_stored>>
    /\ Continue("restore_available")
    /\ UNCHANGED <<project_settings_loading, manager, available_managers,
                   flamenco_job_file_path, flamenco_job_output_path,
                   flamenco_job_output_strip_components, features, cache, enabled_for>>

\* The restore as it would be without line 74: the live list stays.
RestoreAvailable_Skipped ==
    /\ Step("restore_available")
    /\ available_managers' = available_managers
    /\ trace' = Append(trace, "restore")
    /\ Continue("restore_manager")
    /\ UNCHANGED <<project_settings_loading, cloud_project_local_path, manager,
                   flamenco_job_file_path, flamenco_job_output_path,
                   flamenco_job_output_strip_components, project_settings, features,
                   cache, enabled_for, last_stored>>

\* line 74
RestoreAvailable ==
    /\ Step("restore_available")
    /\ available_managers' = Get(ps, "flamenco_available_managers", <<>>)
    /\ trace' = Append(trace, "restore")
    /\ Continue("restore_manager")
    /\ UNCHANGED <<project_settings_loading, cloud_project_local_path, manager,
                   flamenco_job_file_path, flamenco_job_output_path,
                   flamenco_job_output_strip_components, project_settings, features,
                   cache, enabled_for, last_stored>>

\* flamenco_manager_id = ps.get('flamenco_manager_id')
flamenco_manager_id == Get(ps, "flamenco_manager_id", NoManager)

\* The KeyError test of lines 84-86.
HasManagerSettings ==
    /\ "flamenco_managers_settings" \in DOMAIN ps
    /\ flamenco_manager_id \in DOMAIN ps["flamenco_managers_settings"]

\* pppm = ps['flamenco_managers_settings'][flamenco_manager_id]
pppm == ps["flamenco_managers_settings"][flamenco_manager_id]

\* lines 75-95 as they would be without the except KeyError of lines 86-88.
RestoreManager_KeyErrorEscapes ==
    /\ Step("restore_manager")
    /\ IF flamenco_manager_id # NoManager
          THEN IF manager_accepts(available_managers, flamenco_manager_id)
                  THEN /\ manager' = flamenco_manager_id
                       /\ trace' = Append(trace, "restore")
                       /\ StoreCallback(cloud_project_local_path, manager',
                                        available_managers, flamenco_job_file_path,
                                        flamenco_job_output_path,
                                        flamenco_job_output_strip_components)
                       /\ IF HasManagerSettings
                             THEN Continue("restore_file_path")
                             ELSE Leave("raised")
                  ELSE \* TypeError, caught: only a warning is logged.
                       /\ UNCHANGED <<manager, trace, project_settings, last_stored>>
                       /\ Leave("normal")
          ELSE /\ manager' = NoManager
               /\ trace' = Append(trace, "restore")
               /\ StoreCallback(cloud_project_local_path, manager', available_managers,
                                flamenco_job_file_path, flamenco_job_output_path,
                                flamenco_job_output_strip_components)
               /\ Leave("normal")
    /\ UNCHANGED <<project_settings_loading, cloud_project_local_path,
                   available_managers, flamenco_job_file_path, flamenco_job_output_path,
                   flamenco_job_output_strip_components, features, cache, enabled_for>>

\* The restore as it would be without lines 93-95: an entry without a
\* manager leaves the selected one.
RestoreManager_KeepsManager ==
    /\ Step("restore_manager")
    /\ IF flamenco_manager_id # NoManager
          THEN IF manager_accepts(available_managers, flamenco_manager_id)
                  THEN /\ manager' = flamenco_manager_id
                       /\ trace' = Append(trace, "restore")
                       /\ StoreCallback(cloud_project_local_path, manager',
                                        available_managers, flamenco_job_file_path,
                                        flamenco_job_output_path,
                                        flamenco_job_output_strip_components)
                       /\ IF HasManagerSettings
                             THEN Continue("restore_file_path")
                             ELSE Leave("normal")
                  ELSE \* TypeError, caught: only a warning is logged.
                       /\ UNCHANGED <<manager, trace, project_settings, last_stored>>
                       /\ Leave("normal")
          ELSE /\ manager' = manager
               /\ trace' = Append(trace, "restore")
               /\ StoreCallback(cloud_project_local_path, manager', available_managers,
                                flamenco_job_file_path, flamenco_job_output_path,
                                flamenco_job_output_strip_components)
               /\ Leave("normal")
    /\ UNCHANGED <<project_settings_loading, cloud_project_local_path,
                   available_managers, flamenco_job_file_path, flamenco_job_output_path,
                   flamenco_job_output_strip_components, features, cache, enabled_for>>

\* lines 75-88 and 93-95
RestoreManager ==
    /\ Step("restore_manager")
    /\ IF flamenco_manager_id # NoManager
          THEN IF manager_accepts(available_managers, flamenco_manager_id)
                  THEN /\ manager' = flamenco_manager_id
                       /\ trace' = Append(trace, "restore")
                       /\ StoreCallback(cloud_project_local_path, manager',
                                        available_managers, flamenco_job_file_path,
                                        flamenco_job_output_path,
                                        flamenco_job_output_strip_components)
                       /\ IF HasManagerSettings
                             THEN Continue("restore_file_path")
                             ELSE Leave("normal")
                  ELSE \* TypeError, caught: only a warning is logged.
                       /\ UNCHANGED <<manager, trace, project_settings, last_stored>>
                       /\ Leave("normal")
          ELSE /\ manager' = NoManager
               /\ trace' = Append(trace, "restore")
               /\ StoreCallback(cloud_project_local_path, manager', available_managers,
                                flamenco_job_file_path, flamenco_job_output_path,
                                flamenco_job_output_strip_components)
               /\ Leave("normal")
    /\ UNCHANGED <<project_settings_loading, cloud_project_local_path,
                   available_managers, flamenco_job_file_path, flamenco_job_output_path,
                   flamenco_job_output_strip_components, features, cache, enabled_for>>

\* line 90
RestoreFilePath ==
    /\ Step("restore_file_path")
    /\ IF "file_path" \in DOMAIN pppm
          THEN /\ flamenco_job_file_path' = pppm["file_path"]
               /\ trace' = Append(trace, "restore")
               /\ StoreCallback(cloud_project_local_path, manager, available_managers,
                                flamenco_job_file_path', flamenco_job_output_path,
                                flamenco_job_output_strip_components)
               /\ Continue("restore_output_path")
          ELSE /\ UNCHANGED <<flamenco_job_file_path, trace, project_settings,
                              last_stored>>
               /\ Leave("raised")
    /\ UNCHANGED <<project_settings_loading, cloud_project_local_path, manager,
                   available_managers, flamenco_job_output_path,
                   flamenco_job_output_strip_components, features, cache, enabled_for>>

\* line 91
RestoreOutputPath ==
    /\ Step("restore_output_path")
    /\ IF "output_path" \in DOMAIN pppm
          THEN /\ flamenco_job_output_path' = pppm["output_path"]
               /\ trace' = Append(trace, "restore")
               /\ StoreCallback(cloud_project_local_path, manager, available_managers,
                                flamenco_job_file_path, flamenco_job_output_path',
                                flamenco_job_output_strip_components)
               /\ Continue("restore_strip_components")
          ELSE /\ UNCHANGED <<flamenco_job_output_path, trace, project_settings,
                              last_stored>>
               /\ Leave("raised")
    /\ UNCHANGED <<project_settings_loading, cloud_project_local_path, manager,
                   available_managers, flamenco_job_file_path,
                   flamenco_job_output_strip_components, features, cache, enabled_for>>

\* line 92
RestoreStripComponents ==
    /\ Step("restore_strip_components")
    /\ IF "output_strip_components" \in DOMAIN pppm
          THEN /\ flamenco_job_output_strip_components' = pppm["output_strip_components"]
               /\ trace' = Append(trace, "restore")
               /\ StoreCallback(cloud_project_local_path, manager, available_managers,
                                flamenco_job_file_path, flamenco_job_output_path,
                                flamenco_job_output_strip_components')
               /\ Leave("normal")
          ELSE /\ UNCHANGED <<flamenco_job_output_strip_components, trace,
                              project_settings, last_stored>>
               /\ Leave("raised")
    /\ UNCHANGED <<project_settings_loading, cloud_project_local_path, manager,
                   available_managers, flamenco_job_file_path, flamenco_job_output_path,
                   features, cache, enabled_for>>

\* mark_as_loading as it would be without try/finally: an exception skips
\* the reset of the flag.
MarkAsLoadingExit_NoFinally ==
    /\ pc = "exit"
    /\ frames = <<>>
    /\ project_settings_loading' = (outcome = "raised")
    /\ pc' = "idle"
    /\ result' = outcome
    /\ outcome' = "none"
    /\ trace' = <<>>
    /\ dropped' = EmptyDict
    /\ trail' = IF outcome = "raised" THEN <<>>
                ELSE IF Len(trail) < 3 THEN Append(trail, project)
                ELSE <<trail[2], trail[3], project>>
    /\ UNCHANGED <<project, live, project_settings, features, metadata, cache,
                   enabled_for, status, last_stored, ops, frames, operator_vars>>

\* mark_as_loading, lines 23-24: the finally clause, on return and on exception.
MarkAsLoadingExit ==
    /\ pc = "exit"
    /\ frames = <<>>
    /\ project_settings_loading' = FALSE
    /\ pc' = "idle"
    /\ result' = outcome
    /\ outcome' = "none"
    /\ trace' = <<>>
    /\ dropped' = EmptyDict
    /\ trail' = IF outcome = "raised" THEN <<>>
                ELSE IF Len(trail) < 3 THEN Append(trail, project)
                ELSE <<trail[2], trail[3], project>>
    /\ UNCHANGED <<project, live, project_settings, features, metadata, cache,
                   enabled_for, status, last_stored, ops, frames, operator_vars>>

\* Where a callback of the host can call handle_project_update again while a
\* call is running: after the features were activated (lines 49-52) and
\* after the simple properties were restored (lines 69-71).
ReentryPoints == {"load_settings", "restore_available"}

\* handle_project_update entered while an outer call is suspended in a
\* callback: mark_as_loading (lines 19-20) sets the flag again, the locals of
\* the nested call are fresh.
Reenter ==
    /\ pc \in ReentryPoints
    /\ frames = <<>>
    /\ frames' = <<[pc |-> pc, enabled_for |-> enabled_for, trace |-> trace]>>
    /\ project_settings_loading' = TRUE
    /\ pc' = "cache_clear"
    /\ trace' = <<>>
    /\ UNCHANGED <<project, live, project_settings, features, metadata, cache,
                   enabled_for, dropped, status, outcome, result, trail,
                   last_stored, ops, operator_vars>>

\* mark_as_loading, lines 23-24, of the nested call: the finally clause
\* assigns False and the outer call goes on where it was suspended; an
\* exception of the nested call goes on through the outer one.
NestedExit ==
    /\ pc = "exit"
    /\ frames # <<>>
    /\ project_settings_loading' = FALSE
    /\ frames' = <<>>
    /\ enabled_for' = frames[1].enabled_for
    /\ trace' = frames[1].trace
    /\ IF outcome = "raised"
       THEN UNCHANGED <<pc, outcome>>
       ELSE pc' = frames[1].pc /\ outcome' = "none"
    /\ UNCHANGED <<project, live, project_settings, features, metadata, cache,
                   dropped, status, result, trail, last_stored, ops, operator_vars>>


\* ------------------------------------------------------ Attract operators
\* An operator's execute() runs on the UI thread, between handlers; it leaves
\* the settings alone.
Invoke ==
    /\ pc = "idle"
    /\ UNCHANGED settings_vars

\* What the operator hands back to the host.
Returns(op, ret, levels, fails) ==
    /\ operator' = op
    /\ returned' = ret
    /\ reported' = levels
    /\ failed' = fails

\* The panel makes a strip the active one.
SelectStrip(s) ==
    /\ Invoke
    /\ active_strip # s
    /\ active_strip' = s
    /\ UNCHANGED <<strips, report_vars, async_vars>>

\* remove_atc_props(strip) as it would be without line 88.
remove_atc_props_KeepsSynced(strip) ==
    [strip EXCEPT !.atc_name = "", !.atc_object_id = NoShot]

\* remove_atc_props(strip)
remove_atc_props(strip) ==
    [strip EXCEPT !.atc_name = "", !.atc_object_id = NoShot, !.atc_is_synced = FALSE]

\* The name the server has for a shot.
node_name(id) == "name of " \o id

\* AttractOperatorMixin.relink: the strip afterwards, what was reported, and
\* the status ("None" for a plain return, "RAISED" for an uncaught exception).
relink(strip, atc_object_id, refresh, find) ==
    IF find = "ResourceNotFound"
        THEN [strip |-> [strip EXCEPT !.atc_is_synced = FALSE],
              levels |-> {"ERROR"}, status |-> "CANCELLED"]
    ELSE IF find # "ok"
        THEN [strip |-> strip, levels |-> {}, status |-> "RAISED"]
    ELSE IF refresh
        THEN [strip |-> [strip EXCEPT !.atc_is_synced = TRUE],
              levels |-> {}, status |-> "None"]
    ELSE [strip |-> [strip EXCEPT !.atc_is_synced = TRUE,
                                  !.atc_name = node_name(atc_object_id),
                                  !.atc_object_id = atc_object_id],
          levels |-> {}, status |-> "None"]

\* The state of a run of an operator when execute() starts; sent lists the
\* strips a remote call was made for, in order.
Started ==
    [strips |-> strips, reported |-> {}, failed |-> {}, returned |-> "none",
     sent |-> <<>>]

\* The loop of AttractShotFetchUpdate.execute as it would be if it returned
\* the status of the first strip that could not be refreshed.
RECURSIVE fetch_update_StopsAtFailure(_, _, _)
fetch_update_StopsAtFailure(todo, run, find) ==
    IF todo = <<>>
        THEN [run EXCEPT !.returned = "FINISHED"]
    ELSE LET s == Head(todo)
             r == relink(run.strips[s], run.strips[s].atc_object_id, TRUE, find[s])
             fails == IF find[s] = "ok" THEN {} ELSE {find[s]}
             next == [run EXCEPT !.strips[s] = r.strip,
                                 !.sent = Append(@, s),
                                 !.failed = @ \cup fails,
                                 !.reported = @ \cup r.levels \cup
                                    (IF r.status = "None" THEN {"INFO"} ELSE {})]
         IN  IF run.strips[s].atc_object_id = NoShot
                 THEN fetch_update_StopsAtFailure(Tail(todo), run, find)
             ELSE IF r.status # "None"
                 THEN [next EXCEPT !.returned = r.status]
             ELSE fetch_update_StopsAtFailure(Tail(todo), next, find)

\* The loop of AttractShotFetchUpdate.execute over the strips still to do;
\* find says how Node.find ends for each strip.
RECURSIVE fetch_update(_, _, _)
fetch_update(todo, run, find) ==
    IF todo = <<>>
        THEN [run EXCEPT !.returned = "FINISHED"]
    ELSE LET s == Head(todo)
             r == relink(run.strips[s], run.strips[s].atc_object_id, TRUE, find[s])
             fails == IF find[s] = "ok" THEN {} ELSE {find[s]}
         IN  IF run.strips[s].atc_object_id = NoShot
                 THEN fetch_update(Tail(todo), run, find)
             ELSE IF r.status = "RAISED"
                 THEN [run EXCEPT !.returned = "RAISED", !.failed = @ \cup fails,
                                  !.sent = Append(@, s)]
             ELSE fetch_update(
                     Tail(todo),
                     [run EXCEPT !.strips[s] = r.strip,
                                 !.sent = Append(@, s),
                                 !.failed = @ \cup fails,
                                 !.reported = @ \cup r.levels \cup
                                    (IF r.status = "None" THEN {"INFO"} ELSE {})],
                     find)

\* AttractShotFetchUpdate.execute; poll: a selected strip is a shot.
AttractShotFetchUpdate(find) ==
    /\ Invoke
    /\ \E s \in Strips : strips[s].atc_object_id # NoShot
    /\ LET run == fetch_update(selected_sequences, Started, find)
       IN  /\ strips' = run.strips
           /\ Returns("attract.shot_fetch_update", run.returned, run.reported,
                      run.failed)
    /\ UNCHANGED <<active_strip, async_vars>>

\* AttractShotRelink.execute; poll: the active strip is not a shot.
AttractShotRelink(strip_atc_object_id, find) ==
    /\ Invoke
    /\ strips[active_strip].atc_object_id = NoShot
    /\ LET r == relink(strips[active_strip], strip_atc_object_id, FALSE, find)
           fails == IF find = "ok" THEN {} ELSE {find}
       IN  /\ strips' = [strips EXCEPT ![active_strip] = r.strip]
           /\ IF r.status = "None"
                 THEN Returns("attract.shot_relink", "FINISHED", {"INFO"}, fails)
                 ELSE Returns("attract.shot_relink", r.status, r.levels, fails)
    /\ UNCHANGED <<active_strip, async_vars>>

\* AttractShotDelete.execute; the panel offers it for a synced shot.
AttractShotDelete(confirm, find, delete) ==
    /\ Invoke
    /\ strips[active_strip].atc_object_id # NoShot
    /\ strips[active_strip].atc_is_synced
    /\ IF ~confirm
          THEN /\ Returns("attract.shot_delete", "CANCELLED", {"WARNING"}, {})
               /\ UNCHANGED strips
       ELSE IF find # "ok"
          THEN /\ Returns("attract.shot_delete", "RAISED", {}, {find})
               /\ UNCHANGED strips
       ELSE IF delete = "falsy"
          THEN /\ Returns("attract.shot_delete", "CANCELLED", {}, {delete})
               /\ UNCHANGED strips
       ELSE IF delete # "ok"
          THEN /\ Returns("attract.shot_delete", "RAISED", {}, {delete})
               /\ UNCHANGED strips
       ELSE /\ strips' = [strips EXCEPT ![active_strip] = remove_atc_props(@)]
            /\ Returns("attract.shot_delete", "FINISHED", {}, {})
    /\ UNCHANGED <<active_strip, async_vars>>

\* AttractStripUnlink.execute
AttractStripUnlink ==
    /\ Invoke
    /\ strips' = [s \in Strips |-> remove_atc_props(strips[s])]
    /\ Returns("attract.strip_unlink", "FINISHED",
               IF \E s \in Strips : strips[s].atc_object_id # NoShot
                   THEN {"INFO"} ELSE {},
               {})
    /\ UNCHANGED <<active_strip, async_vars>>

\* The id the server gives the shot created for a strip.
new_shot_id(s) == IF s = "s1" THEN "shot1" ELSE "shot2"

\* submit_new_strip / submit_update for one strip: the strip afterwards, what
\* was reported, and the status.
submit(s, strip, user_uuid, write) ==
    IF strip.atc_object_id = NoShot
        THEN IF ~user_uuid
                THEN [strip |-> strip, levels |-> {"ERROR"}, status |-> "CANCELLED",
                      fails |-> {}]
             ELSE IF write \notin {"ok", "falsy"}
                THEN [strip |-> strip, levels |-> {}, status |-> "RAISED",
                      fails |-> {write}]
             ELSE IF write = "falsy"
                THEN [strip |-> strip, levels |-> {"ERROR"}, status |-> "CANCELLED",
                      fails |-> {write}]
             ELSE [strip |-> [strip EXCEPT !.atc_object_id = new_shot_id(s),
                                           !.atc_is_synced = TRUE,
                                           !.atc_name = node_name(new_shot_id(s))],
                   levels |-> {}, status |-> "None", fails |-> {}]
        ELSE IF write \notin {"ok", "falsy"}
                THEN [strip |-> strip, levels |-> {}, status |-> "RAISED",
                      fails |-> {write}]
             ELSE [strip |-> strip, levels |-> {}, status |-> "None", fails |-> {}]

\* The loop of AttractShotSubmitSelected.execute as it would be if it went
\* on to the next strip after a submission that returned a status.
RECURSIVE submit_selected_GoesOn(_, _, _, _)
submit_selected_GoesOn(todo, run, user_uuid, write) ==
    IF todo = <<>>
        THEN [run EXCEPT !.returned = IF @ = "none" THEN "FINISHED" ELSE @,
                         !.reported = @ \cup {"INFO"}]
    ELSE LET s == Head(todo)
             r == submit(s, run.strips[s], user_uuid, write[s])
             called == run.strips[s].atc_object_id # NoShot \/ user_uuid
             next == [run EXCEPT !.strips[s] = r.strip,
                                 !.sent = IF called THEN Append(@, s) ELSE @,
                                 !.failed = @ \cup r.fails,
                                 !.reported = @ \cup r.levels,
                                 !.returned = IF r.status = "None" THEN @ ELSE r.status]
         IN  IF r.status = "RAISED"
                 THEN next
                 ELSE submit_selected_GoesOn(Tail(todo), next, user_uuid, write)

\* The loop of AttractShotSubmitSelected.execute over the strips still to do.
\* A strip without object id and without user id returns before any call.
RECURSIVE submit_selected(_, _, _, _)
submit_selected(todo, run, user_uuid, write) ==
    IF todo = <<>>
        THEN [run EXCEPT !.returned = "FINISHED", !.reported = @ \cup {"INFO"}]
    ELSE LET s == Head(todo)
             r == submit(s, run.strips[s], user_uuid, write[s])
             called == run.strips[s].atc_object_id # NoShot \/ user_uuid
             next == [run EXCEPT !.strips[s] = r.strip,
                                 !.sent = IF called THEN Append(@, s) ELSE @,
                                 !.failed = @ \cup r.fails,
                                 !.reported = @ \cup r.levels]
         IN  IF r.status = "None"
                 THEN submit_selected(Tail(todo), next, user_uuid, write)
                 ELSE [next EXCEPT !.returned = r.status]

\* AttractShotSubmitSelected.execute: find_node_type, then the loop.
execute_submit_selected(find_one, has_node_type, user_uuid, write) ==
    IF find_one # "ok"
        THEN [Started EXCEPT !.returned = "RAISED", !.failed = {find_one}]
    ELSE IF ~has_node_type
        THEN [Started EXCEPT !.returned = "CANCELLED", !.reported = {"ERROR"}]
    ELSE submit_selected(selected_sequences, Started, user_uuid, write)

\* AttractShotSubmitSelected.execute; poll: strips are selected.
AttractShotSubmitSelected(find_one, has_node_type, user_uuid, write) ==
    /\ Invoke
    /\ LET run == execute_submit_selected(find_one, has_node_type, user_uuid, write)
       IN  /\ strips' = run.strips
           /\ Returns("attract.submit_selected", run.returned, run.reported,
                      run.failed)
    /\ UNCHANGED <<active_strip, async_vars>>

\* ------------------------------------------------- asynchronous operators
\* The calls the operator awaits from now on.
Awaits(op, calls) == in_flight' = [in_flight EXCEPT ![op] = calls]

\* AuthenticatedPillarOperatorMixin.authenticate() answering False: the user
\* is told and the operator ends.
AuthenticationFails(op) == Returns(op, "CANCELLED", {"ERROR"}, {})

\* AsyncModalOperatorMixin with stop_upon_exception: an exception that leaves
\* async_execute is reported and the operator ends.
TaskRaised(op, error) == Returns(op, "FINISHED", {"ERROR"}, {error})

\* The button is there while status is NONE or IDLE.
ProjectsInvoke ==
    /\ Invoke
    /\ projects_pc = "idle"
    /\ attract_project_status \in {"NONE", "IDLE"}
    /\ projects_pc' = "authenticate"
    /\ Awaits("pillar.projects", {"authenticate"})
    /\ UNCHANGED <<strip_vars, report_vars, projects_user, render_pc,
                   available_projects, attract_project_status>>

\* PILLAR_OT_projects.async_execute as it would be if it gathered the two
\* queries.
ProjectsAuthenticated_Gather(ok) ==
    /\ Invoke
    /\ projects_pc = "authenticate"
    /\ IF ok
          THEN /\ attract_project_status' = "FETCHING"
               /\ projects_pc' = "projects_user"
               /\ Awaits("pillar.projects", {"projects_user", "projects_shared"})
               /\ UNCHANGED report_vars
          ELSE /\ AuthenticationFails("pillar.projects")
               /\ projects_pc' = "idle"
               /\ Awaits("pillar.projects", {})
               /\ UNCHANGED attract_project_status
    /\ UNCHANGED <<strip_vars, projects_user, render_pc, available_projects>>

\* lines 472-490
ProjectsAuthenticated(ok) ==
    /\ Invoke
    /\ projects_pc = "authenticate"
    /\ IF ok
          THEN /\ attract_project_status' = "FETCHING"
               /\ projects_pc' = "projects_user"
               /\ Awaits("pillar.projects", {"projects_user"})
               /\ UNCHANGED report_vars
          ELSE /\ AuthenticationFails("pillar.projects")
               /\ projects_pc' = "idle"
               /\ Awaits("pillar.projects", {})
               /\ UNCHANGED attract_project_status
    /\ UNCHANGED <<strip_vars, projects_user, render_pc, available_projects>>

\* lines 483-499: the first query has answered, the second one starts.
ProjectsUserDone(answer) ==
    /\ Invoke
    /\ projects_pc = "projects_user"
    /\ IF answer.error = "ok"
          THEN /\ projects_user' = answer.items
               /\ projects_pc' = "projects_shared"
               /\ Awaits("pillar.projects", {"projects_shared"})
               /\ UNCHANGED <<report_vars, attract_project_status>>
          ELSE /\ TaskRaised("pillar.projects", answer.error)
               /\ attract_project_status' = "IDLE"
               /\ projects_pc' = "idle"
               /\ Awaits("pillar.projects", {})
               /\ UNCHANGED projects_user
    /\ UNCHANGED <<strip_vars, render_pc, available_projects>>

\* lines 492-512: the second query has answered; the list is stored and
\* quit() sets the status.
ProjectsSharedDone(answer) ==
    /\ Invoke
    /\ projects_pc = "projects_shared"
    /\ IF answer.error = "ok"
          THEN /\ available_projects' = projects_user \o answer.items
               /\ Returns("pillar.projects", "FINISHED", {}, {})
          ELSE /\ TaskRaised("pillar.projects", answer.error)
               /\ UNCHANGED available_projects
    /\ attract_project_status' = "IDLE"
    /\ projects_pc' = "idle"
    /\ projects_user' = <<>>
    /\ Awaits("pillar.projects", {})
    /\ UNCHANGED <<strip_vars, render_pc>>

\* The render panel's button.
RenderInvoke ==
    /\ Invoke
    /\ render_pc = "idle"
    /\ render_pc' = "authenticate"
    /\ Awaits("flamenco.render", {"authenticate"})
    /\ UNCHANGED <<strip_vars, report_vars, projects_pc, projects_user,
                   available_projects, attract_project_status>>

\* lines 124-145
RenderAuthenticated(ok) ==
    /\ Invoke
    /\ render_pc = "authenticate"
    /\ IF ok
          THEN /\ render_pc' = "create_job"
               /\ Awaits("flamenco.render", {"job.create"})
               /\ UNCHANGED report_vars
          ELSE /\ AuthenticationFails("flamenco.render")
               /\ render_pc' = "idle"
               /\ Awaits("flamenco.render", {})
    /\ UNCHANGED <<strip_vars, projects_pc, projects_user, available_projects,
                   attract_project_status>>

\* lines 134-150 and create_job
RenderJobDone(create) ==
    /\ Invoke
    /\ render_pc = "create_job"
    /\ IF create = "ok"
          THEN Returns("flamenco.render", "FINISHED", {"INFO"}, {})
       ELSE IF create = "ResourceInvalid"
          THEN Returns("flamenco.render", "FINISHED", {"ERROR"}, {create})
       ELSE TaskRaised("flamenco.render", create)
    /\ render_pc' = "idle"
    /\ Awaits("flamenco.render", {})
    /\ UNCHANGED <<strip_vars, projects_pc, projects_user, available_projects,
                   attract_project_status>>

\* The operators of the Attract panel, the render button and the project
\* list of the preferences.
NextOperators ==
    \/ \E s \in Strips : SelectStrip(s)
    \/ \E find \in [Strips -> FindOutcomes] : AttractShotFetchUpdate(find)
    \/ \E id \in ShotIds, find \in FindOutcomes : AttractShotRelink(id, find)
    \/ \E confirm \in BOOLEAN, find \in FindOutcomes, delete \in WriteOutcomes :
          AttractShotDelete(confirm, find, delete)
    \/ AttractStripUnlink
    \/ \E find_one \in {"ok", "ForbiddenAccess"}, has_node_type \in BOOLEAN,
          user_uuid \in BOOLEAN, write \in [Strips -> WriteOutcomes] :
          AttractShotSubmitSelected(find_one, has_node_type, user_uuid, write)
    \/ ProjectsInvoke
    \/ \E ok \in BOOLEAN : ProjectsAuthenticated(ok)
    \/ \E answer \in ListOutcomes(UserProjectLists) : ProjectsUserDone(answer)
    \/ \E answer \in ListOutcomes(SharedProjectLists) : ProjectsSharedDone(answer)
    \/ RenderInvoke
    \/ \E ok \in BOOLEAN : RenderAuthenticated(ok)
    \/ \E create \in JobOutcomes : RenderJobDone(create)

SpecOperators == Init /\ [][NextOperators]_vars

\* -------------------------------------- the fetches and their completion
\* FLAMENCO_OT_fmanagers: authenticate() answers False (lines 90-91); the
\* user is told and async_execute returns before it touches the preferences.
FetchManagersUnauthenticated ==
    /\ Invoke
    /\ status \in {"NONE", "IDLE"}
    /\ AuthenticationFails("flamenco.managers")
    /\ UNCHANGED <<strip_vars, async_vars>>

\* FLAMENCO_OT_fmanagers: Manager.all raises (line 99); the exception leaves
\* async_execute, the mixin stops the operator through quit() (lines 108-110).
FetchManagersRaises(error) ==
    /\ pc = "idle"
    /\ status = "FETCHING"
    /\ status' = "IDLE"
    /\ result' = "none"
    /\ TaskRaised("flamenco.managers", error)
    /\ UNCHANGED <<project_settings_loading, project, live, project_settings, features,
                   metadata, cache, enabled_for, dropped, pc, outcome, history,
                   last_stored, ops, frames, strip_vars, async_vars>>

\* An awaited call of FLAMENCO_OT_fmanagers ends.
FetchManagersAnswered ==
    \/ \E ids \in ManagerLists : FetchManagersDone(ids)
    \/ FetchManagersRaises("ForbiddenAccess")

\* An awaited call of PILLAR_OT_projects ends.
ProjectsAnswered ==
    \/ \E answer \in ListOutcomes(UserProjectLists) : ProjectsUserDone(answer)
    \/ \E answer \in ListOutcomes(SharedProjectLists) : ProjectsSharedDone(answer)

NextFetch ==
    \/ FetchManagersStart
    \/ FetchManagersUnauthenticated
    \/ FetchManagersAnswered
    \/ ProjectsInvoke
    \/ \E ok \in BOOLEAN : ProjectsAuthenticated(ok)
    \/ ProjectsAnswered

\* The two fetch operators; the event loop runs every awaited call to its
\* answer or its exception.
SpecFetch ==
    /\ Init
    /\ [][NextFetch]_vars
    /\ WF_vars(FetchManagersAnswered)
    /\ WF_vars(ProjectsAnswered)

\* The events and steps in which no call of the host or the server raises.
NextCalm ==
    \/ \E v \in LocalPaths : EditLocalPath(v)
    \/ \E m \in Managers \cup {NoManager} : EditManager(m)
    \/ \E v \in FilePaths : EditFilePath(v)
    \/ \E v \in OutputPaths : EditOutputPath(v)
    \/ \E v \in StripComponents : EditStripComponents(v)
    \/ FetchManagersStart
    \/ \E ids \in ManagerLists : FetchManagersDone(ids)
    \/ \E p \in Projects : SelectProject(p)
    \/ CacheClear
    \/ Deactivate
    \/ ProjectExtensions
    \/ Activate
    \/ LoadSettings
    \/ RestoreSimple
    \/ RestoreAvailable
    \/ RestoreManager
    \/ RestoreFilePath
    \/ RestoreOutputPath
    \/ RestoreStripComponents
    \/ MarkAsLoadingExit

Next ==
    \/ NextCalm
    \/ DeactivateFails
    \/ ProjectExtensionsFails
    \/ ActivateFails

Spec == Init /\ [][Next]_vars

\* The behaviours in which nothing raises.
SpecCalm == Init /\ [][NextCalm]_vars

\* The behaviours in which a callback calls handle_project_update while a
\* call is running, nothing raising.
NextNested ==
    \/ NextCalm
    \/ Reenter
    \/ NestedExit

SpecNested == Init /\ [][NextNested]_vars

\* The behaviours that start on saved preferences, nothing raising in the
\* host or the server.
SpecSaved == InitSaved /\ [][NextCalm]_vars

\* ------------------------------------------------------------ properties
\* What store() would write if it ran now with nothing holding it back.
WouldStore ==
    store_unguarded(project_settings, project, cloud_project_local_path, manager,
                    available_managers, flamenco_job_file_path,
                    flamenco_job_output_path, flamenco_job_output_strip_components)

\* How often the event occurs in the steps of the running call.
Count(event) == Cardinality({i \in DOMAIN trace : trace[i] = event})

\* C1: while project_settings_loading is true, no step (each step of
\* handle_project_update that can fire store() included) changes the
\* persisted project_settings mapping.
C1_StoreSuppressedWhileLoading ==
    [][project_settings_loading => project_settings' = project_settings]_vars

\* C1 witness: restoring the simple property has just fired store(), the flag
\* is set, and an unguarded store() would have changed the mapping.
C1_Witness ==
    /\ project_settings_loading
    /\ pc = "restore_available"
    /\ Count("restore") = 1
    /\ WouldStore # project_settings

\* C6: no step of a handle_project_update call, from its entry to its
\* return, changes the persisted mapping, so a complete run leaves it as it
\* was.
C6_LoadLeavesSettings ==
    [][(pc # "idle" \/ pc' # "idle") => project_settings' = project_settings]_vars

\* C6 witness: a run is returning normally after it restored the simple
\* property, the manager list, the manager and the three path fields.
C6_Witness ==
    /\ pc = "exit"
    /\ outcome = "normal"
    /\ Count("restore") = 6

\* C7: project_settings_loading is true exactly while handle_project_update
\* is executing, whichever way the call ends, so a store() fired between
\* calls persists.
C7_LoadingIffRunning ==
    /\ project_settings_loading <=> pc # "idle"
    /\ pc = "idle" =>
          store(project_settings_loading, project_settings, project,
                cloud_project_local_path, manager, available_managers,
                flamenco_job_file_path, flamenco_job_output_path,
                flamenco_job_output_strip_components) = WouldStore

\* C7 witness: the last call ended by an exception and the flag is clear.
C7_Witness ==
    /\ pc = "idle"
    /\ result = "raised"
    /\ ~project_settings_loading


\* C10: the entry of every project for which store() has run holds what the
\* live preferences were at its last store(): the simple property, the
\* selected manager, the available managers, and under that manager's key
\* the three path fields.  The entry exists even if the project had none.
C10_StoreWritesLiveValues ==
    \A p \in DOMAIN last_stored :
        /\ p \in DOMAIN project_settings
        /\ LET e == project_settings[p]
               v == last_stored[p]
           IN  /\ DOMAIN e = {"cloud_project_local_path", "flamenco_manager_id",
                              "flamenco_available_managers",
                              "flamenco_managers_settings"}
               /\ e["cloud_project_local_path"] = v.cloud_project_local_path
               /\ e["flamenco_manager_id"] = v.manager
               /\ e["flamenco_available_managers"] = v.available_managers
               /\ v.manager \in DOMAIN e["flamenco_managers_settings"]
               /\ e["flamenco_managers_settings"][v.manager] =
                      [file_path |-> v.file_path, output_path |-> v.output_path,
                       output_strip_components |-> v.output_strip_components]

\* C10 witness: store() has just run for a project that had no entry, with a
\* manager selected and edited path fields.
C10_Witness ==
    /\ pc = "idle"
    /\ result = "none"
    /\ project \in Projects
    /\ project \in DOMAIN last_stored
    /\ manager # NoManager
    /\ flamenco_job_file_path # DefaultFilePath
    /\ last_stored[project] =
          Snapshot(cloud_project_local_path, manager, available_managers,
                   flamenco_job_file_path, flamenco_job_output_path,
                   flamenco_job_output_strip_components)


\* C8: when handle_project_update has returned without an exception, early
\* or not, each feature is active exactly if project_extensions of the
\* current project names it.
C8_FeaturesMatchExtensions ==
    (pc = "idle" /\ result \in {"normal", "early"}) =>
        /\ attract_active <=> "attract" \in project_extensions(cache, metadata, project)
        /\ flamenco_active <=> "flamenco" \in project_extensions(cache, metadata, project)

\* C8 witness: a call returned normally for a project enabled for attract
\* only, after at least one earlier call had returned.
C8_Witness ==
    /\ pc = "idle"
    /\ result = "normal"
    /\ Len(trail) >= 2
    /\ attract_active
    /\ ~flamenco_active

Position(event) == CHOOSE i \in DOMAIN trace : trace[i] = event
Deactivations == {"attract.deactivate", "flamenco.deactivate"}
Activations == {"attract.activate", "flamenco.activate"}

\* C9: in the steps of a call, each feature is deactivated at most once and
\* activated at most once; when project_extensions is queried both features
\* have been deactivated exactly once; every activation comes after the
\* query; and once a live preference has been written from the saved mapping
\* every enabled feature has been activated and no activation follows.
C9_StepOrder ==
    /\ \A e \in Deactivations \cup Activations : Count(e) <= 1
    /\ Count("project_extensions") <= 1
    /\ \A i \in DOMAIN trace :
          /\ trace[i] = "project_extensions" =>
                \A d \in Deactivations : Count(d) = 1 /\ Position(d) < i
          /\ trace[i] \in Activations =>
                /\ Count("project_extensions") = 1
                /\ Position("project_extensions") < i
                /\ \A d \in Deactivations : Count(d) = 1 /\ Position(d) < i
          /\ trace[i] = "restore" =>
                /\ \A j \in DOMAIN trace : trace[j] \in Activations => j < i
                /\ \A f \in enabled_for : Count(f \o ".activate") = 1
                /\ Count("project_extensions") = 1
                /\ Position("project_extensions") < i

\* C9 witness: a call is returning after it deactivated both features,
\* activated both and restored the saved fields.
C9_Witness ==
    /\ pc = "exit"
    /\ outcome = "normal"
    /\ Count("attract.activate") = 1
    /\ Count("flamenco.activate") = 1
    /\ Count("restore") >= 3


\* The three live path fields, as store() writes them.
LivePaths ==
    [file_path |-> flamenco_job_file_path,
     output_path |-> flamenco_job_output_path,
     output_strip_components |-> flamenco_job_output_strip_components]

\* C2: when handle_project_update has returned normally for a project whose
\* entry store() wrote, the simple property and the three path fields equal
\* the stored values: those of the manager that was selected at store time,
\* "no manager selected" included.
C2_RoundTrip ==
    (pc = "idle" /\ result = "normal") =>
        /\ cloud_project_local_path = ps["cloud_project_local_path"]
        /\ LivePaths = ps["flamenco_managers_settings"][ps["flamenco_manager_id"]]

\* C3: when the calls for A, then B, then A again have returned (A # B) and
\* the last one restored saved settings, the live simple property, selected
\* manager, available managers and path fields are what they were at the
\* last store() for A.
C3_SwitchAndBack ==
    (/\ pc = "idle"
     /\ result = "normal"
     /\ Len(trail) = 3
     /\ trail[1] = project
     /\ trail[2] # project
     /\ trail[3] = project) =>
        Snapshot(cloud_project_local_path, manager, available_managers,
                 flamenco_job_file_path, flamenco_job_output_path,
                 flamenco_job_output_strip_components) = last_stored[project]

\* C4: while no load is in progress, when the persisted mapping holds an
\* entry for the current project and the selected manager, the live path
\* fields are that entry.
C4_LivePathsOfSelectedManager ==
    (/\ pc = "idle"
     /\ ~project_settings_loading
     /\ "flamenco_managers_settings" \in DOMAIN ps
     /\ manager \in DOMAIN ps["flamenco_managers_settings"]) =>
        LivePaths = ps["flamenco_managers_settings"][manager]

\* C5: when handle_project_update has returned normally for a project whose
\* saved manager id is not among the saved available managers, no manager is
\* selected.
C5_UnknownManagerUnset ==
    (/\ pc = "idle"
     /\ result = "normal"
     /\ flamenco_manager_id # NoManager
     /\ ~manager_accepts(Get(ps, "flamenco_available_managers", <<>>),
                         flamenco_manager_id)) =>
        manager = NoManager

\* C11: between handlers, a second store() that follows a first one with the
\* same live preferences and the same current project writes the mapping the
\* first one wrote.
C11_StoreIdempotent ==
    pc = "idle" =>
        store(project_settings_loading, WouldStore, project,
              cloud_project_local_path, manager, available_managers,
              flamenco_job_file_path, flamenco_job_output_path,
              flamenco_job_output_strip_components) = WouldStore

\* C11 witness: a manager is selected and the first store() changes the
\* entry the current project already has.
C11_Witness ==
    /\ pc = "idle"
    /\ project \in Projects
    /\ project \in DOMAIN project_settings
    /\ WouldStore # project_settings
    /\ manager # NoManager

\* C12: when handle_project_update has returned for projA and the entry of
\* projA is the example entry (manager m1 with its settings, no list of
\* available managers), the live manager is m1 and the live path fields are
\* /a, /b and 2.
C12_SavedExampleRestored ==
    (/\ pc = "idle"
     /\ result = "normal"
     /\ project = "projA"
     /\ ps = SavedExample) =>
        /\ manager = "m1"
        /\ flamenco_job_file_path = "/a"
        /\ flamenco_job_output_path = "/b"
        /\ flamenco_job_output_strip_components = 2

\* The saved manager of the current project is selectable and has no saved
\* settings.
C14_Case ==
    /\ flamenco_manager_id # NoManager
    /\ manager_accepts(Get(ps, "flamenco_available_managers", <<>>),
                       flamenco_manager_id)
    /\ ~HasManagerSettings

\* C14: in a handle_project_update call for a project whose saved manager is
\* selectable and has no saved settings, no step changes the three live path
\* fields, and the call leaves the with block by a normal return with the
\* saved manager selected.
C14_MissingSettingsNothingToRestore ==
    [][(C14_Case' /\ (pc # "idle" \/ pc' # "idle")) =>
          /\ LivePaths' = LivePaths
          /\ pc' = "exit" =>
                /\ outcome' = "normal"
                /\ manager' = flamenco_manager_id']_vars

\* C14 witness: such a call is returning, the manager is selected and the
\* file path is still the one the user had set before the call.
C14_Witness ==
    /\ pc = "exit"
    /\ outcome = "normal"
    /\ C14_Case
    /\ manager = "m1"
    /\ flamenco_job_file_path = "/a"

\* C13: in a handle_project_update call for a project without a saved entry
\* (or with an empty one), the only step that changes a live preference is
\* the one of lines 56-62, and it only empties the list of available
\* managers: the simple property, the selected manager and the three path
\* fields stay as they were before the call.
C13_NoEntryOnlyResetsList ==
    [][(DOMAIN ps' = {} /\ (pc # "idle" \/ pc' # "idle")) =>
          /\ cloud_project_local_path' = cloud_project_local_path
          /\ manager' = manager
          /\ LivePaths' = LivePaths
          /\ IF pc = "load_settings"
                THEN available_managers' = <<>> /\ outcome' = "early"
                ELSE available_managers' = available_managers]_vars

\* C13 witness: such a call is returning early; it emptied the list while a
\* manager was selected and the file path had been edited.
C13_Witness ==
    /\ pc = "exit"
    /\ outcome = "early"
    /\ DOMAIN ps = {}
    /\ manager # NoManager
    /\ available_managers = <<>>
    /\ flamenco_job_file_path # DefaultFilePath

\* The per-manager settings of an entry.
ManagersSettings(entry) == Get(entry, "flamenco_managers_settings", EmptyDict)

\* C15: no step removes a project entry of the persisted mapping or a
\* per-manager entry inside one, and a project entry appears exactly in the
\* first store() that runs while that project is current.
C15_EntriesNeverRemoved ==
    [][/\ \A p \in DOMAIN project_settings :
             /\ p \in DOMAIN project_settings'
             /\ DOMAIN ManagersSettings(project_settings[p])
                    \subseteq DOMAIN ManagersSettings(project_settings'[p])
       /\ \A p \in DOMAIN project_settings' \ DOMAIN project_settings :
             /\ p = project
             /\ p \notin DOMAIN last_stored
             /\ p \in DOMAIN last_stored'
       /\ \A p \in DOMAIN last_stored' \ DOMAIN last_stored :
             /\ p \notin DOMAIN project_settings
             /\ p \in DOMAIN project_settings']_vars

\* C15 witness: both projects have an entry, the user is back on the first
\* one, and the other one is still there.
C15_Witness ==
    /\ pc = "idle"
    /\ Projects \subseteq DOMAIN project_settings
    /\ Len(trail) = 3
    /\ trail[1] = project
    /\ trail[2] # project

\* The keys of a project entry and of a per-manager entry.
EntryKeys ==
    PROJECT_SPECIFIC_SIMPLE_PROPS \cup
        {"flamenco_manager_id", "flamenco_available_managers",
         "flamenco_managers_settings"}
ManagerEntryKeys == {"file_path", "output_path", "output_strip_components"}

\* C17: every entry of the persisted mapping holds the simple property,
\* flamenco_manager_id, flamenco_available_managers and
\* flamenco_managers_settings, every per-manager entry holds file_path,
\* output_path and output_strip_components, and the restore of lines 90-92
\* finds all three in the entry it reads.
C17_EntryLayout ==
    /\ \A p \in DOMAIN project_settings :
          /\ EntryKeys \subseteq DOMAIN project_settings[p]
          /\ \A m \in DOMAIN project_settings[p]["flamenco_managers_settings"] :
                ManagerEntryKeys \subseteq
                    DOMAIN project_settings[p]["flamenco_managers_settings"][m]
    /\ pc \in {"restore_file_path", "restore_output_path",
                "restore_strip_components"} => ManagerEntryKeys \subseteq DOMAIN pppm

\* C17 witness: the restore is reading the per-manager entry of a project
\* whose entry holds the settings of two managers.
C17_Witness ==
    /\ pc = "restore_strip_components"
    /\ Cardinality(DOMAIN ps["flamenco_managers_settings"]) = 2

\* C20: a step that changes the persisted mapping leaves the current project
\* as it is, leaves the entry of every other project as it is, and inside
\* the entry of the current project leaves the per-manager entry of every
\* manager but the selected one as it is and writes no key but the simple
\* property, flamenco_manager_id, flamenco_available_managers and
\* flamenco_managers_settings.
C20_StoreFrame ==
    [][project_settings' # project_settings =>
          /\ project' = project
          /\ DOMAIN project_settings' \subseteq DOMAIN project_settings \cup {project}
          /\ \A p \in DOMAIN project_settings \ {project} :
                /\ p \in DOMAIN project_settings'
                /\ project_settings'[p] = project_settings[p]
          /\ \A k \in DOMAIN ps' \ EntryKeys : k \in DOMAIN ps /\ ps'[k] = ps[k]
          /\ \A m \in DOMAIN ManagersSettings(ps) \ {manager'} :
                /\ m \in DOMAIN ManagersSettings(ps')
                /\ ManagersSettings(ps')[m] = ManagersSettings(ps)[m]]_vars

\* C20 witness: store() has just run for a project whose entry holds the
\* settings of another manager too, while another entry exists.
C20_Witness ==
    /\ pc = "idle"
    /\ result = "none"
    /\ project \in DOMAIN last_stored
    /\ last_stored[project] =
          Snapshot(cloud_project_local_path, manager, available_managers,
                   flamenco_job_file_path, flamenco_job_output_path,
                   flamenco_job_output_strip_components)
    /\ Cardinality(DOMAIN project_settings) >= 2
    /\ Cardinality(DOMAIN ManagersSettings(ps)) >= 2

\* C16: once the lookup of a call has run, the enabled features the call
\* works with are those of the project's metadata as the lookup found it,
\* and once the activation has run each feature is active exactly if that
\* metadata names it, whatever an earlier call had cached.
C16_FreshExtensions ==
    (pc \notin {"idle", "cache_clear", "deactivate", "project_extensions"}
        /\ outcome # "raised") =>
        /\ enabled_for = metadata
        /\ pc # "activate" =>
              /\ attract_active <=> "attract" \in metadata
              /\ flamenco_active <=> "flamenco" \in metadata

\* C16 witness: the call has activated flamenco for a project whose cached
\* result, discarded at the start of the call, did not name it.
C16_Witness ==
    /\ pc = "load_settings"
    /\ project \in DOMAIN dropped
    /\ dropped[project] # metadata
    /\ "flamenco" \notin dropped[project]
    /\ flamenco_active

\* C18: when a remote call failed during the run of the operator that
\* returned last, the run reported an error to the user and the operator
\* returned a result: the exception did not leave the operator.
C18_SdkFailuresReported ==
    failed # {} =>
        /\ "ERROR" \in reported
        /\ returned \in {"FINISHED", "CANCELLED"}

\* C19: no running operator awaits more than one call; in PILLAR_OT_projects
\* the query for shared projects is awaited only once the query for the
\* user's own projects has answered, and a step that writes the list of
\* available projects is the one in which the second query answers.
C19_SingleFlight ==
    [][/\ \A o \in DOMAIN in_flight' : Cardinality(in_flight'[o]) <= 1
       /\ "projects_shared" \in in_flight'["pillar.projects"] =>
             /\ projects_pc' = "projects_shared"
             /\ "projects_user" \notin in_flight'["pillar.projects"]
       /\ available_projects' # available_projects =>
             /\ projects_pc = "projects_shared"
             /\ in_flight["pillar.projects"] = {"projects_shared"}
             /\ in_flight'["pillar.projects"] = {}]_vars

\* C19 witness: the first query has answered with a project, the second one
\* is awaited, and the render operator awaits a call of its own.
C19_Witness ==
    /\ projects_pc = "projects_shared"
    /\ projects_user # <<>>
    /\ in_flight["pillar.projects"] = {"projects_shared"}
    /\ in_flight["flamenco.render"] = {"job.create"}

\* C21: when handle_project_update has returned normally for a project whose
\* saved manager is one of its saved available managers (as store() writes
\* them when the selected manager is in the live list), the live list is the
\* saved one, the saved manager is selected and the live path fields are its
\* saved settings.
C21_SavedManagerSelected ==
    (/\ pc = "idle"
     /\ result = "normal"
     /\ \E i \in DOMAIN Get(ps, "flamenco_available_managers", <<>>) :
           ps["flamenco_available_managers"][i]._id = flamenco_manager_id) =>
        /\ available_managers = ps["flamenco_available_managers"]
        /\ manager = flamenco_manager_id
        /\ LivePaths = pppm

\* C21 witness: the user left the project for one without settings, which
\* emptied the live list, and came back: the list and the manager are those
\* saved for the project.
C21_Witness ==
    /\ pc = "idle"
    /\ result = "normal"
    /\ Len(trail) = 3
    /\ trail[1] = project
    /\ trail[2] # project
    /\ manager = "m1"
    /\ flamenco_manager_id = "m1"
    /\ available_managers = as_list(<<"m1">>)

\* C22: while a call of handle_project_update is running, nested or not, the
\* flag project_settings_loading is set and store() leaves the persisted
\* mapping as it is.
C22_LoadingWhileAnyContext ==
    pc # "idle" =>
        /\ project_settings_loading
        /\ store(project_settings_loading, project_settings, project,
                 cloud_project_local_path, manager, available_managers,
                 flamenco_job_file_path, flamenco_job_output_path,
                 flamenco_job_output_strip_components) = project_settings

\* The current project has a non-empty saved entry without a manager id,
\* or with the empty one.
C23_Case ==
    /\ DOMAIN ps # {}
    /\ flamenco_manager_id = NoManager

\* C23: in a handle_project_update call for a project whose non-empty entry
\* has no flamenco_manager_id or an empty one, no step changes the three live
\* path fields, and the call leaves the with block by a normal return with
\* no manager selected.
C23_NoManagerResetsSelection ==
    [][(C23_Case' /\ (pc # "idle" \/ pc' # "idle")) =>
          /\ LivePaths' = LivePaths
          /\ pc' = "exit" =>
                /\ outcome' = "normal"
                /\ manager' = NoManager]_vars

\* C23 witness: the first call of the session is returning for such a
\* project, no manager is selected any more, and the last store() before
\* the call had a manager selected.
C23_Witness ==
    /\ pc = "exit"
    /\ outcome = "normal"
    /\ C23_Case
    /\ manager = NoManager
    /\ trail = <<>>
    /\ NoProject \in DOMAIN last_stored
    /\ last_stored[NoProject].manager # NoManager

\* The selected strips that are shots, in the order of the selection.
C24_Shots == SelectSeq(selected_sequences, LAMBDA s : strips[s].atc_object_id # NoShot)

\* C24: whatever strips Node.find does not find, AttractShotFetchUpdate.execute
\* calls the server for every selected strip that has an object id, in order,
\* and returns FINISHED; a strip that was found is synced, one that was not
\* found is not synced and keeps its name and its object id.
C24_FetchUpdateGoesOn ==
    \A find \in [Strips -> {"ok", "ResourceNotFound"}] :
        LET run == fetch_update(selected_sequences, Started, find)
        IN  /\ run.sent = C24_Shots
            /\ run.returned = "FINISHED"
            /\ \A s \in Strips :
                  IF strips[s].atc_object_id = NoShot
                      THEN run.strips[s] = strips[s]
                      ELSE run.strips[s] =
                              [strips[s] EXCEPT !.atc_is_synced = (find[s] = "ok")]

\* C24 witness: the operator has returned FINISHED after the first strip was
\* not found and the second one, a shot, was refreshed.
C24_Witness ==
    /\ operator = "attract.shot_fetch_update"
    /\ returned = "FINISHED"
    /\ failed = {"ResourceNotFound"}
    /\ reported = {"ERROR", "INFO"}
    /\ strips["s1"].atc_object_id # NoShot
    /\ ~strips["s1"].atc_is_synced
    /\ strips["s2"].atc_object_id # NoShot
    /\ strips["s2"].atc_is_synced

\* C25: whenever no call of handle_project_update is running, the selected
\* manager is unset or one of the live available managers.
C25_ManagerIsAvailable ==
    pc = "idle" =>
        \/ manager = NoManager
        \/ \E i \in DOMAIN available_managers : available_managers[i]._id = manager

\* C26: every entry of the persisted mapping has, under
\* flamenco_managers_settings, settings keyed by the entry's own
\* flamenco_manager_id, the empty id of "no manager selected" included.
C26_OwnManagerHasSettings ==
    \A p \in DOMAIN project_settings :
        /\ "flamenco_manager_id" \in DOMAIN project_settings[p]
        /\ project_settings[p]["flamenco_manager_id"] \in
              DOMAIN ManagersSettings(project_settings[p])

\* C26 witness: one project was stored with no manager selected, another
\* with a manager, and each has the settings of its own id.
C26_Witness ==
    \E p, q \in DOMAIN project_settings :
        /\ project_settings[p]["flamenco_manager_id"] = NoManager
        /\ NoManager \in DOMAIN ManagersSettings(project_settings[p])
        /\ project_settings[q]["flamenco_manager_id"] \in Managers
        /\ project_settings[q]["flamenco_manager_id"] \in
              DOMAIN ManagersSettings(project_settings[q])

\* C27: after any sequence of Attract operators, a strip whose
\* atc_is_synced is true has a non-empty atc_object_id.
C27_SyncedHasObjectId ==
    \A s \in Strips : strips[s].atc_is_synced => strips[s].atc_object_id # NoShot

\* C27 witness: the shot of the active strip was deleted, which cleared its
\* link, while another strip is still a synced shot.
C27_Witness ==
    /\ operator = "attract.shot_delete"
    /\ returned = "FINISHED"
    /\ strips[active_strip].atc_object_id = NoShot
    /\ ~strips[active_strip].atc_is_synced
    /\ \E s \in Strips : strips[s].atc_is_synced /\ strips[s].atc_object_id \in ShotIds

\* C28: a run of AttractShotDelete.execute either returns FINISHED, having
\* cleared the Attract properties of the active strip, or returns CANCELLED
\* and leaves the properties of every strip as they were.
C28_DeleteClearsOrCancels ==
    [][(/\ operator' = "attract.shot_delete"
        /\ <<report_vars, strips>>' # <<report_vars, strips>>) =>
          IF returned' = "FINISHED"
              THEN strips' = [strips EXCEPT ![active_strip] = remove_atc_props(@)]
              ELSE /\ returned' = "CANCELLED"
                   /\ strips' = strips]_vars

\* A run of one of the two fetch operators ends on a failed authentication.
C29_AuthenticationFailed ==
    \/ /\ report_vars' # report_vars
       /\ operator' = "flamenco.managers"
       /\ returned' = "CANCELLED"
    \/ /\ projects_pc = "authenticate"
       /\ projects_pc' = "idle"

C30_Cancels(i, user_uuid, write) ==
    LET s == selected_sequences[i]
    IN  /\ strips[s].atc_object_id = NoShot
        /\ ~user_uuid \/ write[s] = "falsy"

\* The submission of the i-th selected strip goes through: the node is
\* created, or the patch call returns.
C30_GoesThrough(i, user_uuid, write) ==
    LET s == selected_sequences[i]
    IN  IF strips[s].atc_object_id = NoShot
            THEN user_uuid /\ write[s] = "ok"
            ELSE write[s] \in {"ok", "falsy"}

====
